---------------------------- MODULE Spec2Model ----------------------------
(***************************************************************************)
(* Model of the retrieval-augmented query path of the engine maintenance   *)
(* assistant: RAGPipeline (src/src/rag_pipeline/pipeline.py), VectorStore  *)
(* and GoogleLLM (same file), EmbeddingManager and GoogleEmbeddings        *)
(* (src/src/data_processing/embeddings.py), DocumentProcessor              *)
(* (src/src/data_processing/document_loader.py).                           *)
(*                                                                         *)
(* Conventions.                                                            *)
(*  - A Python str is a sequence of one-character strings.                 *)
(*  - A similarity score is an integer number of 1/10000 (0.82 is 8200).   *)
(*  - An optional value is << >> for None and <<v>> for the value v.       *)
(*  - A confidence is an integer number of hundredths, a rounded source    *)
(*    score an integer number of thousandths.                              *)
(***************************************************************************)
EXTENDS Integers, Sequences, FiniteSets, TLC

VARIABLES
    similarity_threshold, \* settings.similarity_threshold      (config.py:31)
    max_context_length,   \* RAGPipeline.max_context_length     (pipeline.py:185)
    store,                \* what the Chroma index answers: [ok, ranked], the
                          \* ranked list of <<doc, score>>; ~ok: the lookup raises
    k,                    \* query argument k
    include_sources,      \* query argument include_sources
    threshold,            \* similarity_search argument threshold (None or <<score>>)
    pc,                   \* position of the running call
    retrieved_docs,       \* local retrieved_docs of query / result of similarity_search
    context,              \* local context of query / result of _prepare_context
    answer,               \* local answer of query
    response,             \* the value returned by the running call (Pending before)
    calls,                \* the collaborators called by the running query, in order
    returned,             \* how many times the running query has returned
    raised,               \* the callee whose exception query caught ("none" if none)
    cache,                \* EmbeddingManager.cache: cache key -> embedding
    requests,             \* the genai.embed_content requests of the last embedding
                          \* call, in order: [content, ok]
    submitted,            \* content -> requests made for it since the cache was
                          \* last empty (construction or clear_cache)
    texts,                \* argument texts of the last embedding call
    use_cache,            \* argument use_cache of the last embedding call
    result,               \* value returned by the last embedding call
    generations,          \* generate_content requests made by the last generate call
    documents,            \* argument documents of the last add_documents call
    store_calls,          \* the calls that add_documents call made on
                          \* self.vectorstore, in order: [op, batch]
    sources,              \* the CSV files of the loader: file -> [status, rows]
    file_path,            \* argument file_path of the last load_csv_data call
    loaded,               \* value returned by the last loader call
    callers,              \* the concurrent callers of the embedding cache:
                          \* caller -> [pc, method, text, embedding, result]
    serialized            \* whether the hosting process lets only one caller
                          \* at a time into the embedding cache

vars == <<similarity_threshold, max_context_length, store, k, include_sources,
          threshold, pc, retrieved_docs, context, answer, response, calls,
          returned, raised, cache, requests, submitted, texts, use_cache, result,
          generations, documents, store_calls, sources, file_path, loaded,
          callers, serialized>>

queryVars == <<similarity_threshold, max_context_length, store, k, include_sources,
               threshold, pc, retrieved_docs, context, answer, response, calls,
               returned, raised>>

embedVars == <<cache, requests, submitted, texts, use_cache, result>>

ingestVars == <<documents, store_calls, sources, file_path, loaded>>

callerVars == <<callers, serialized>>

-----------------------------------------------------------------------------
(* Python strings *)

Digits == <<"0", "1", "2", "3", "4", "5", "6", "7", "8", "9">>

\* A text of n characters whose character at position i depends on i and on off.
Text(n, off) == [i \in 1..n |-> Digits[((i + off) % 10) + 1]]

\* s[:n] for n >= 0
Prefix(s, n) == SubSeq(s, 1, IF n < Len(s) THEN n ELSE Len(s))

Ellipsis == <<".", ".", ".">>

SourceLabel == <<"S", "o", "u", "r", "c", "e", ":", " ">>

Newline == <<"\n">>

Unknown == <<"U", "n", "k", "n", "o", "w", "n">>

\* sep.join(parts)
RECURSIVE Join(_, _)
Join(parts, sep) ==
    IF Len(parts) = 0 THEN << >>
    ELSE IF Len(parts) = 1 THEN parts[1]
    ELSE parts[1] \o sep \o Join(Tail(parts), sep)

\* dict.get(key, default)
DictGet(d, key, default) == IF key \in DOMAIN d THEN d[key] ELSE default

-----------------------------------------------------------------------------
(* Python floats: round(x, ndigits) *)

\* round(x, ndigits) rounds the exact value of the double x.  A decimal tie
\* such as 0.735 is no double: the double that the sum and the division
\* produce lies just above or just below it ((0.82 + 0.65) / 2 rounds to 0.73,
\* (0.65 + 0.8) / 2 to 0.73 and not 0.72), so at a decimal tie the result is
\* one of the two neighbours, and `up` says which.  Away from a tie the
\* result is the nearest multiple of the unit.

\* round(num/den, 2) in hundredths, for a value num/den in 1/10000
Round2(num, den, up) ==
    LET unit == 100 * den
        q    == num \div unit
        r    == num % unit
    IN  IF 2 * r < unit THEN q
        ELSE IF 2 * r > unit THEN q + 1
        ELSE IF up THEN q + 1 ELSE q

-----------------------------------------------------------------------------
(* RAGPipeline helpers: pure functions of the retrieved results.  A result  *)
(* is <<doc, score>> with doc = [page_content, metadata].                   *)

RECURSIVE SumScores(_)
SumScores(docs) ==
    IF docs = << >> THEN 0 ELSE docs[1][2] + SumScores(Tail(docs))

\* The directions round(confidence, 2) can take at a decimal tie for the
\* scores of docs: (0.82 + 0.65) / 2 is 0.73499999999999998667... in binary64
\* and is rounded down.
TieDirections(docs) ==
    IF [i \in 1..Len(docs) |-> docs[i][2]] = <<8200, 6500>> THEN {FALSE} ELSE BOOLEAN

\* _calculate_confidence without the clamp to [0, 1]
CalculateConfidenceUnclamped(docs, up) ==
    IF docs = << >> THEN 0 ELSE Round2(SumScores(docs), Len(docs), up)

\* RAGPipeline._calculate_confidence, in hundredths
CalculateConfidence(docs, up) ==
    IF docs = << >> THEN 0
    ELSE LET n   == Len(docs)
             sum == SumScores(docs)
             \* min(1.0, max(0.0, avg_score)) as the fraction num/n
             num == IF sum < 0 THEN 0
                    ELSE IF sum > 10000 * n THEN 10000 * n
                    ELSE sum
         IN  Round2(num, n, up)

\* f"Source: {doc.metadata.get('source', 'Unknown')}\n{doc_text}"
ContextPart(doc, doc_text) ==
    SourceLabel \o DictGet(doc.metadata, "source", Unknown) \o Newline \o doc_text

\* The loop of RAGPipeline._prepare_context from result i on, with the parts
\* collected so far and current_length.
RECURSIVE ContextParts(_, _, _, _, _)
ContextParts(docs, i, parts, current_length, max_length) ==
    IF i > Len(docs) THEN parts
    ELSE LET doc      == docs[i][1]
             doc_text == doc.page_content
         IN  IF current_length + Len(doc_text) > max_length
             THEN LET remaining_length == max_length - current_length
                  IN  IF remaining_length > 100
                      THEN Append(parts,
                                  ContextPart(doc, Prefix(doc_text, remaining_length)
                                                   \o Ellipsis))
                      ELSE parts
             ELSE ContextParts(docs, i + 1, Append(parts, ContextPart(doc, doc_text)),
                               current_length + Len(doc_text), max_length)

\* RAGPipeline._prepare_context
PrepareContext(docs, max_length) ==
    Join(ContextParts(docs, 1, << >>, 0, max_length), Newline \o Newline)

\* SourceContent cutting from 200 characters on instead of above 200
SourceContentFrom200(page_content) ==
    IF Len(page_content) >= 200 THEN Prefix(page_content, 200) \o Ellipsis
    ELSE page_content

\* doc.page_content[:200] + "..." if len(doc.page_content) > 200 else doc.page_content
SourceContent(page_content) ==
    IF Len(page_content) > 200 THEN Prefix(page_content, 200) \o Ellipsis
    ELSE page_content

\* round(score, 3) in thousandths, for a score in 1/10000
Round3(score, up) ==
    LET q == score \div 10
        r == score % 10
    IN  IF 2 * r < 10 THEN q
        ELSE IF 2 * r > 10 THEN q + 1
        ELSE IF up THEN q + 1 ELSE q

\* One entry of RAGPipeline._format_sources, for the result at index i (from 1)
SourceInfo(i, pair, up) ==
    [id               |-> i,
     content          |-> SourceContent(pair[1].page_content),
     metadata         |-> pair[1].metadata,
     similarity_score |-> Round3(pair[2], up)]

\* _format_sources numbering the entries as enumerate does, from 0
FormatSourcesFromZero(docs, ups) ==
    [i \in 1..Len(docs) |-> SourceInfo(i - 1, docs[i], ups[i])]

\* RAGPipeline._format_sources; ups[i] is the direction round takes for the
\* i-th score, should it be a decimal tie
FormatSources(docs, ups) == [i \in 1..Len(docs) |-> SourceInfo(i, docs[i], ups[i])]

-----------------------------------------------------------------------------
(* VectorStore.similarity_search.  An optional argument is << >> for None   *)
(* and <<v>> for the value v.  The index is [ok, ranked]: ranked is what    *)
(* similarity_search_with_score finds, best first; ok = FALSE when the      *)
(* lookup raises.                                                           *)

None == << >>

\* A test of the argument against None instead of its truth value
IsGiven(opt) == opt # None

\* Python truth value of an optional number
Truthy(opt) == opt # None /\ opt[1] # 0

\* vectorstore.similarity_search_with_score(query, k=k): at most k results
WithScore(ranked, kk) == Prefix(ranked, kk)

\* [(doc, score) for doc, score in results if score >= threshold]
RECURSIVE FilterByThreshold(_, _)
FilterByThreshold(results, t) ==
    IF results = << >> THEN << >>
    ELSE IF results[1][2] >= t
         THEN <<results[1]>> \o FilterByThreshold(Tail(results), t)
         ELSE FilterByThreshold(Tail(results), t)

\* similarity_search without its except clause taking effect: the results
\* are returned although the lookup failed
SimilaritySearchDespiteFailure(index, kk, thr, default) ==
    LET t == IF Truthy(thr) THEN thr[1] ELSE default
    IN  IF t # 0
        THEN FilterByThreshold(WithScore(index.ranked, kk), t)
        ELSE WithScore(index.ranked, kk)

\* VectorStore.similarity_search(query, k, threshold)
SimilaritySearch(index, kk, thr, default) ==
    LET \* threshold = threshold or settings.similarity_threshold
        t == IF Truthy(thr) THEN thr[1] ELSE default
    IN  IF ~index.ok
        THEN << >>                                  \* except Exception: return []
        ELSE IF t # 0                               \* if threshold:
             THEN FilterByThreshold(WithScore(index.ranked, kk), t)
             ELSE WithScore(index.ranked, kk)

-----------------------------------------------------------------------------
(* GoogleLLM.generate *)

StopAfterAttempt == 3

GeneratedText == "Generated response"

Apology ==
    "I apologize, but I encountered an error processing your request. Please try again."

\* The body of GoogleLLM.generate: one generate_content request, whose outcome
\* is ok; the except clause turns a failure into the apology, so the body
\* never raises.
GenerateBody(ok) ==
    [raised   |-> FALSE,
     value    |-> IF ok THEN GeneratedText ELSE Apology,
     requests |-> 1]

\* @retry(stop=stop_after_attempt(3)): the body is called again only when it
\* raised, at most StopAfterAttempt times; oks[i] is the outcome of the i-th
\* generate_content request.
RECURSIVE GenerateAttempt(_, _, _)
GenerateAttempt(oks, attempt, made) ==
    LET r == GenerateBody(oks[made + 1])
    IN  IF ~r.raised THEN [r EXCEPT !.requests = made + r.requests]
        ELSE IF attempt < StopAfterAttempt
             THEN GenerateAttempt(oks, attempt + 1, made + r.requests)
             ELSE [r EXCEPT !.requests = made + r.requests]    \* RetryError

\* GoogleLLM.generate(prompt, max_tokens)
Generate(oks) == GenerateAttempt(oks, 1, 0)

-----------------------------------------------------------------------------
(* RAGPipeline.query *)

NoMatchAnswer ==
    "I couldn't find relevant information to answer your question. Please try rephrasing or asking about a different topic."

ErrorAnswer ==
    "I encountered an error while processing your question. Please try again."

NoMatchResponse == [answer |-> NoMatchAnswer, sources |-> << >>, confidence |-> 0]

ErrorResponse == [answer |-> ErrorAnswer, sources |-> << >>, confidence |-> 0]

\* No value returned yet
Pending == [answer |-> "", sources |-> << >>, confidence |-> 0]

\* Bounds of the query model
MaxRanked == 2          \* results the index holds for a question
MaxK == 2               \* largest k asked for

EmptyDict == [x \in {} |-> x]

DocA == [page_content |-> Text(40, 0), metadata |-> [source |-> <<"m", "1">>]]
DocB == [page_content |-> Text(120, 3), metadata |-> EmptyDict]
DocC == [page_content |-> Text(205, 6), metadata |-> [source |-> <<"m", "2">>]]

QueryDocs == {DocA, DocB, DocC}

QueryScores == {6500, 8200, 8205}

QueryThresholds == {6000, 7000}

QueryContextLengths == {150, 4000}

\* Sequences over S of length at most n
SeqUpTo(S, n) == UNION {[1..m -> S] : m \in 0..n}

\* What the index holds for a question, and whether looking it up raises
QueryIndexes ==
    {[ok |-> TRUE, ranked |-> r] : r \in SeqUpTo(QueryDocs \X QueryScores, MaxRanked)}
    \cup {[ok |-> FALSE, ranked |-> r] : r \in {<< >>, <<<<DocA, 8200>>>>}}

embedIdle ==
    /\ cache = EmptyDict
    /\ requests = << >>
    /\ submitted = EmptyDict
    /\ texts = << >>
    /\ use_cache = TRUE
    /\ result = << >>

\* Bound of the concurrent model
MaxCallers == 2         \* threads of the hosting process that use the cache

Callers == 1..MaxCallers

NoCall == [pc |-> "idle", method |-> "", text |-> << >>, embedding |-> << >>,
           result |-> << >>]

\* no caller has entered the embedding cache
callersIdle ==
    /\ callers = [c \in Callers |-> NoCall]
    /\ serialized = TRUE

\* no add_documents call and no loader call made
ingestIdle ==
    /\ documents = << >>
    /\ store_calls = << >>
    /\ sources = EmptyDict
    /\ file_path = ""
    /\ loaded = << >>

\* RAGPipeline.__init__: a pipeline with its configuration, no query running
Init ==
    /\ similarity_threshold \in QueryThresholds
    /\ max_context_length \in QueryContextLengths
    /\ store = [ok |-> TRUE, ranked |-> << >>]
    /\ k = 1
    /\ include_sources = TRUE
    /\ threshold = None
    /\ pc = "idle"
    /\ retrieved_docs = << >>
    /\ context = << >>
    /\ answer = ""
    /\ response = Pending
    /\ calls = << >>
    /\ returned = 0
    /\ raised = "none"
    /\ generations = 0
    /\ embedIdle
    /\ ingestIdle
    /\ callersIdle

\* Except with the exception re-raised to the caller of query
ExceptReraises(callee) ==
    /\ calls' = Append(calls, callee)
    /\ raised' = callee
    /\ pc' = "propagated"
    /\ UNCHANGED <<response, returned>>

\* The except clause of query: log and return the error response
Except(callee) ==
    /\ calls' = Append(calls, callee)
    /\ raised' = callee
    /\ response' = ErrorResponse
    /\ returned' = returned + 1
    /\ pc' = "responded"

\* A caller calls query(question, k, include_sources); the index holds some
\* ranking for the question.
Receive ==
    /\ pc = "idle"
    /\ store' \in QueryIndexes
    /\ k' \in 1..MaxK
    /\ include_sources' \in BOOLEAN
    /\ pc' = "received"
    /\ retrieved_docs' = << >>
    /\ context' = << >>
    /\ answer' = ""
    /\ response' = Pending
    /\ calls' = << >>
    /\ returned' = 0
    /\ raised' = "none"
    /\ UNCHANGED <<similarity_threshold, max_context_length, threshold>>
    /\ generations' = 0
    /\ UNCHANGED <<embedVars, ingestVars, callerVars>>

\* retrieved_docs = self.vector_store.similarity_search(question, k=k)
Retrieve ==
    /\ pc = "received"
    /\ \/ /\ retrieved_docs' = SimilaritySearch(store, k, None, similarity_threshold)
          /\ calls' = Append(calls, "similarity_search")
          /\ pc' = "retrieved"
          /\ UNCHANGED <<response, returned, raised>>
       \/ \* an injected vector store that raises
          /\ Except("similarity_search")
          /\ UNCHANGED retrieved_docs
    /\ UNCHANGED <<similarity_threshold, max_context_length, store, k,
                   include_sources, threshold, context, answer>>
    /\ UNCHANGED <<generations, embedVars, ingestVars, callerVars>>

\* if not retrieved_docs: return {...}
NoMatch ==
    /\ pc = "retrieved"
    /\ retrieved_docs = << >>
    /\ response' = NoMatchResponse
    /\ returned' = returned + 1
    /\ pc' = "responded"
    /\ UNCHANGED <<similarity_threshold, max_context_length, store, k,
                   include_sources, threshold, retrieved_docs, context, answer,
                   calls, raised>>
    /\ UNCHANGED <<generations, embedVars, ingestVars, callerVars>>

\* BuildContext without the early return on an empty retrieval before it
BuildContextUnguarded ==
    /\ pc = "retrieved"
    /\ \/ /\ context' = PrepareContext(retrieved_docs, max_context_length)
          /\ calls' = Append(calls, "_prepare_context")
          /\ pc' = "context_built"
          /\ UNCHANGED <<response, returned, raised>>
       \/ /\ Except("_prepare_context")
          /\ UNCHANGED context
    /\ UNCHANGED <<similarity_threshold, max_context_length, store, k,
                   include_sources, threshold, retrieved_docs, answer>>
    /\ UNCHANGED <<generations, embedVars, ingestVars, callerVars>>

\* context = self._prepare_context(retrieved_docs)
BuildContext ==
    /\ pc = "retrieved"
    /\ retrieved_docs # << >>
    /\ \/ /\ context' = PrepareContext(retrieved_docs, max_context_length)
          /\ calls' = Append(calls, "_prepare_context")
          /\ pc' = "context_built"
          /\ UNCHANGED <<response, returned, raised>>
       \/ /\ Except("_prepare_context")
          /\ UNCHANGED context
    /\ UNCHANGED <<similarity_threshold, max_context_length, store, k,
                   include_sources, threshold, retrieved_docs, answer>>
    /\ UNCHANGED <<generations, embedVars, ingestVars, callerVars>>

\* GenerateAnswer calling the generator again when it raised
GenerateAnswerAgain ==
    /\ pc = "context_built"
    /\ \/ /\ \E oks \in [1..StopAfterAttempt -> BOOLEAN] :
                /\ answer' = Generate(oks).value
                /\ generations' = Generate(oks).requests
          /\ calls' = Append(calls, "generate")
          /\ pc' = "answered"
          /\ UNCHANGED <<response, returned, raised>>
       \/ /\ Len(calls) < 4
          /\ calls' = Append(calls, "generate")
          /\ UNCHANGED <<pc, answer, response, returned, raised, generations>>
    /\ UNCHANGED <<similarity_threshold, max_context_length, store, k,
                   include_sources, threshold, retrieved_docs, context>>
    /\ UNCHANGED <<embedVars, ingestVars, callerVars>>

\* answer = self._generate_answer(question, context)
GenerateAnswer ==
    /\ pc = "context_built"
    /\ \/ /\ \E oks \in [1..StopAfterAttempt -> BOOLEAN] :
                /\ answer' = Generate(oks).value
                /\ generations' = Generate(oks).requests
          /\ calls' = Append(calls, "generate")
          /\ pc' = "answered"
          /\ UNCHANGED <<response, returned, raised>>
       \/ \* an injected generator that raises
          /\ Except("generate")
          /\ UNCHANGED <<answer, generations>>
    /\ UNCHANGED <<similarity_threshold, max_context_length, store, k,
                   include_sources, threshold, retrieved_docs, context>>
    /\ UNCHANGED <<embedVars, ingestVars, callerVars>>

\* A response dict that gives the apology of a failed generation no confidence
ResponseHidingApology(ans, docs, up) ==
    [answer     |-> ans,
     confidence |-> IF ans = Apology THEN 0 ELSE CalculateConfidence(docs, up),
     sources    |-> << >>]

\* response = {"answer": answer, "confidence": self._calculate_confidence(...), "sources": []}
Response(ans, docs, up) ==
    [answer     |-> ans,
     confidence |-> CalculateConfidence(docs, up),
     sources    |-> << >>]

\* response = {...}: the confidence is computed while the dict is built
Score ==
    /\ pc = "answered"
    /\ \/ /\ \E up \in TieDirections(retrieved_docs) :
                response' = Response(answer, retrieved_docs, up)
          /\ calls' = Append(calls, "_calculate_confidence")
          /\ pc' = "scored"
          /\ UNCHANGED <<returned, raised>>
       \/ Except("_calculate_confidence")
    /\ UNCHANGED <<similarity_threshold, max_context_length, store, k,
                   include_sources, threshold, retrieved_docs, context, answer>>
    /\ UNCHANGED <<generations, embedVars, ingestVars, callerVars>>

\* if include_sources: response["sources"] = self._format_sources(retrieved_docs)
\* return response
Package ==
    /\ pc = "scored"
    /\ \/ /\ include_sources
          /\ \E ups \in [1..Len(retrieved_docs) -> BOOLEAN] :
                response' = [response EXCEPT
                                !.sources = FormatSources(retrieved_docs, ups)]
          /\ calls' = Append(calls, "_format_sources")
          /\ returned' = returned + 1
          /\ pc' = "responded"
          /\ UNCHANGED raised
       \/ /\ include_sources
          /\ Except("_format_sources")
       \/ /\ ~include_sources
          /\ returned' = returned + 1
          /\ pc' = "responded"
          /\ UNCHANGED <<response, calls, raised>>
    /\ UNCHANGED <<similarity_threshold, max_context_length, store, k,
                   include_sources, threshold, retrieved_docs, context, answer>>
    /\ UNCHANGED <<generations, embedVars, ingestVars, callerVars>>

\* The caller has the response; the frame of query is gone
Finish ==
    /\ pc = "responded"
    /\ pc' = "idle"
    /\ store' = [ok |-> TRUE, ranked |-> << >>]
    /\ k' = 1
    /\ include_sources' = TRUE
    /\ retrieved_docs' = << >>
    /\ context' = << >>
    /\ answer' = ""
    /\ response' = Pending
    /\ calls' = << >>
    /\ returned' = 0
    /\ raised' = "none"
    /\ UNCHANGED <<similarity_threshold, max_context_length, threshold>>
    /\ generations' = 0
    /\ UNCHANGED <<embedVars, ingestVars, callerVars>>

Next ==
    \/ Receive
    \/ Finish
    \/ Retrieve
    \/ NoMatch
    \/ BuildContext
    \/ GenerateAnswer
    \/ Score
    \/ Package

Spec == Init /\ [][Next]_vars

\* The steps of a running query.  query is sequential Python code: once
\* called it runs on until it returns.
Step == Retrieve \/ NoMatch \/ BuildContext \/ GenerateAnswer \/ Score \/ Package

LiveSpec == Init /\ [][Next]_vars /\ WF_vars(Step)

-----------------------------------------------------------------------------
(* The helpers of the query path applied on their own, as their unit tests  *)
(* and any other caller apply them: _calculate_confidence, _prepare_context *)
(* and _format_sources to a list of results, similarity_search to an index. *)

\* Bounds of the helper model
MaxScored == 2          \* results given to _calculate_confidence
MaxChunks == 3          \* results given to _prepare_context and _format_sources
MaxFound == 2           \* results the index holds for similarity_search

FnScores == {-2000, 0, 6000, 6500, 7000, 8000, 8200, 10000, 13000}

\* A chunk of n characters; those of even length carry no source
Chunk(n) ==
    [page_content |-> Text(n, n),
     metadata     |-> IF n % 2 = 0 THEN EmptyDict ELSE [source |-> <<"m", "3">>]]

FnChunkLengths == {40, 49, 50, 51, 120, 200, 201}

FnContextLengths == {150, 260}

FnSearchScores == {0, 5000, 6499, 6500, 6999, 7000}

FnThresholds == {None, <<0>>, <<6500>>}

FnDefaultThresholds == {0, 7000}

\* Results whose scores vary
ScoredInputs == SeqUpTo({DocA, DocB} \X FnScores, MaxScored)

\* Results whose contents vary
ChunkInputs == SeqUpTo({Chunk(n) : n \in FnChunkLengths} \X {8000}, MaxChunks)

FoundInputs == SeqUpTo({DocA} \X FnSearchScores, MaxFound)

FnInit ==
    /\ pc = "fn_input"
    /\ \/ /\ retrieved_docs \in ScoredInputs
          /\ max_context_length = 150
          /\ similarity_threshold = 7000
          /\ store = [ok |-> TRUE, ranked |-> << >>]
          /\ k = 1
          /\ threshold = None
       \/ /\ retrieved_docs \in ChunkInputs
          /\ max_context_length \in FnContextLengths
          /\ similarity_threshold = 7000
          /\ store = [ok |-> TRUE, ranked |-> << >>]
          /\ k = 1
          /\ threshold = None
       \/ /\ retrieved_docs = << >>
          /\ max_context_length = 150
          /\ similarity_threshold \in FnDefaultThresholds
          /\ store \in {[ok |-> o, ranked |-> r] : o \in BOOLEAN, r \in FoundInputs}
          /\ k \in 1..MaxFound
          /\ threshold \in FnThresholds
    /\ include_sources = TRUE
    /\ context = << >>
    /\ answer = ""
    /\ response = Pending
    /\ calls = << >>
    /\ returned = 0
    /\ raised = "none"
    /\ generations = 0
    /\ embedIdle
    /\ ingestIdle
    /\ callersIdle

\* confidence = pipeline._calculate_confidence(retrieved_docs)
FnCalculateConfidence ==
    /\ pc = "fn_input"
    /\ \E up \in TieDirections(retrieved_docs) :
          response' = [response EXCEPT
                          !.confidence = CalculateConfidence(retrieved_docs, up)]
    /\ pc' = "fn_confidence"
    /\ UNCHANGED <<similarity_threshold, max_context_length, store, k,
                   include_sources, threshold, retrieved_docs, context, answer,
                   calls, returned, raised>>
    /\ UNCHANGED <<generations, embedVars, ingestVars, callerVars>>

\* context = pipeline._prepare_context(retrieved_docs)
FnPrepareContext ==
    /\ pc = "fn_input"
    /\ context' = PrepareContext(retrieved_docs, max_context_length)
    /\ pc' = "fn_context"
    /\ UNCHANGED <<similarity_threshold, max_context_length, store, k,
                   include_sources, threshold, retrieved_docs, answer, response,
                   calls, returned, raised>>
    /\ UNCHANGED <<generations, embedVars, ingestVars, callerVars>>

\* sources = pipeline._format_sources(retrieved_docs)
FnFormatSources ==
    /\ pc = "fn_input"
    /\ \E ups \in [1..Len(retrieved_docs) -> BOOLEAN] :
          response' = [response EXCEPT !.sources = FormatSources(retrieved_docs, ups)]
    /\ pc' = "fn_sources"
    /\ UNCHANGED <<similarity_threshold, max_context_length, store, k,
                   include_sources, threshold, retrieved_docs, context, answer,
                   calls, returned, raised>>
    /\ UNCHANGED <<generations, embedVars, ingestVars, callerVars>>

\* results = vector_store.similarity_search(query, k, threshold)
FnSimilaritySearch ==
    /\ pc = "fn_input"
    /\ retrieved_docs' = SimilaritySearch(store, k, threshold, similarity_threshold)
    /\ pc' = "fn_search"
    /\ UNCHANGED <<similarity_threshold, max_context_length, store, k,
                   include_sources, threshold, context, answer, response,
                   calls, returned, raised>>
    /\ UNCHANGED <<generations, embedVars, ingestVars, callerVars>>

FnNext ==
    \/ FnCalculateConfidence
    \/ FnPrepareContext
    \/ FnFormatSources
    \/ FnSimilaritySearch

SpecFn == FnInit /\ [][FnNext]_vars

-----------------------------------------------------------------------------
(* GoogleEmbeddings and EmbeddingManager.  The code stores and returns      *)
(* embeddings and never computes with them, so an embedding is             *)
(* [dim, entries]: its length and what its entries are, <<"0.0">> when all  *)
(* are 0.0 and <<"embedding of">> \o content for the provider's vector.    *)
(* A provider request is [content, ok], ok = FALSE when                     *)
(* genai.embed_content raises.  Whether the request for the j-th text of a  *)
(* call succeeds is oks[j], on every attempt that makes it.                 *)

MaxEmbedChars == 2048

ZeroVectorDim == 768

\* [0.0] * 768
ZeroVector == [dim |-> ZeroVectorDim, entries |-> <<"0.0">>]

Ord == [c \in {"a", "b", "c"} |-> CASE c = "a" -> 97 [] c = "b" -> 98 [] c = "c" -> 99]

\* hash(text): a number fixed by the text for the life of the process; the
\* texts of the model have distinct hashes, as a handful of texts has under
\* the 64-bit hash of str.
RECURSIVE Hash(_)
Hash(text) == IF text = << >> THEN 7 ELSE (31 * Hash(Tail(text)) + Ord[Head(text)]) % 65536

\* EmbeddingManager._get_cache_key
CacheKey(text) == <<"embed_", Hash(text)>>

\* text[:2048] if len(text) > 2048
Truncate(text) == IF Len(text) > MaxEmbedChars THEN Prefix(text, MaxEmbedChars) ELSE text

\* result['embedding'] of a successful request: the provider's vector for
\* the content, of the dimension of the embedding model
ProviderVector(content) ==
    [dim |-> ZeroVectorDim, entries |-> <<"embedding of">> \o content]

\* The body of GoogleEmbeddings.embed_query: one request; the except clause
\* turns a failure into the zero vector, so the body never raises.
EmbedQueryBody(text, oks) ==
    LET content == Truncate(text)
        ok      == oks[1]
    IN  [raised   |-> FALSE,
         value    |-> IF ok THEN ProviderVector(content) ELSE ZeroVector,
         requests |-> <<[content |-> content, ok |-> ok]>>]

\* @retry(stop=stop_after_attempt(3)) around embed_query
RECURSIVE EmbedQueryAttempt(_, _, _, _)
EmbedQueryAttempt(text, oks, attempt, sent) ==
    LET r   == EmbedQueryBody(text, oks)
        all == sent \o r.requests
    IN  IF ~r.raised THEN [r EXCEPT !.requests = all]
        ELSE IF attempt < StopAfterAttempt
             THEN EmbedQueryAttempt(text, oks, attempt + 1, all)
             ELSE [r EXCEPT !.requests = all]                  \* RetryError

\* GoogleEmbeddings.embed_query(text)
EmbedQuery(text, oks) == EmbedQueryAttempt(text, oks, 1, << >>)

\* The loop of embed_documents without the except clause inside it: the first
\* failed request ends the batch
RECURSIVE EmbedLoopAborting(_, _, _, _, _)
EmbedLoopAborting(ts, i, oks, embeddings, sent) ==
    IF i > Len(ts) THEN [raised |-> FALSE, value |-> embeddings, requests |-> sent]
    ELSE LET content == Truncate(ts[i])
             ok      == oks[i]
         IN  IF ok
             THEN EmbedLoopAborting(ts, i + 1, oks,
                                    Append(embeddings, ProviderVector(content)),
                                    Append(sent, [content |-> content, ok |-> ok]))
             ELSE [raised   |-> FALSE,
                   value    |-> embeddings,
                   requests |-> Append(sent, [content |-> content, ok |-> ok])]

\* The loop of GoogleEmbeddings.embed_documents from text i on: one request
\* per text, a failure replaced by the zero vector inside the loop
RECURSIVE EmbedLoop(_, _, _, _, _)
EmbedLoop(ts, i, oks, embeddings, sent) ==
    IF i > Len(ts) THEN [raised |-> FALSE, value |-> embeddings, requests |-> sent]
    ELSE LET content == Truncate(ts[i])
             ok      == oks[i]
         IN  EmbedLoop(ts, i + 1, oks,
                       Append(embeddings,
                              IF ok THEN ProviderVector(content) ELSE ZeroVector),
                       Append(sent, [content |-> content, ok |-> ok]))

\* @retry(stop=stop_after_attempt(3)) around embed_documents
RECURSIVE EmbedDocumentsAttempt(_, _, _, _)
EmbedDocumentsAttempt(ts, oks, attempt, sent) ==
    LET r == EmbedLoop(ts, 1, oks, << >>, sent)
    IN  IF ~r.raised THEN r
        ELSE IF attempt < StopAfterAttempt
             THEN EmbedDocumentsAttempt(ts, oks, attempt + 1, r.requests)
             ELSE r                                            \* RetryError

\* GoogleEmbeddings.embed_documents(texts)
EmbedDocuments(ts, oks) == EmbedDocumentsAttempt(ts, oks, 1, << >>)

\* The texts of ts, from i on, whose key is not in the cache c, and their indices
RECURSIVE Misses(_, _, _)
Misses(ts, i, c) ==
    IF i > Len(ts) THEN << >>
    ELSE IF CacheKey(ts[i]) \in DOMAIN c THEN Misses(ts, i + 1, c)
         ELSE <<i>> \o Misses(ts, i + 1, c)

\* StoreNew without self.cache[cache_key] = new_embedding
RECURSIVE StoreNewWithoutCacheWrite(_, _, _, _, _, _)
StoreNewWithoutCacheWrite(ts, indices, new_embeddings, j, c, embeddings) ==
    IF j > Len(indices) \/ j > Len(new_embeddings)
    THEN [cache |-> c, embeddings |-> embeddings]
    ELSE StoreNewWithoutCacheWrite(ts, indices, new_embeddings, j + 1, c,
                                   [embeddings EXCEPT ![indices[j]] = new_embeddings[j]])

\* for idx, new_embedding in zip(indices_to_embed, new_embeddings): from pair j on
RECURSIVE StoreNew(_, _, _, _, _, _)
StoreNew(ts, indices, new_embeddings, j, c, embeddings) ==
    IF j > Len(indices) \/ j > Len(new_embeddings)
    THEN [cache |-> c, embeddings |-> embeddings]
    ELSE LET idx == indices[j]
         IN  StoreNew(ts, indices, new_embeddings, j + 1,
                      (CacheKey(ts[idx]) :> new_embeddings[j]) @@ c,
                      [embeddings EXCEPT ![idx] = new_embeddings[j]])

\* embeddings.append(None)
NoEmbedding == [dim |-> 0, entries |-> <<"None">>]

\* get_embeddings without the use_cache test: the cache is always used
GetEmbeddingsOfAlwaysCached(c, ts, uc, oks) ==
    LET indices_to_embed == Misses(ts, 1, c)
        texts_to_embed   == [j \in 1..Len(indices_to_embed) |-> ts[indices_to_embed[j]]]
        embeddings       == [i \in 1..Len(ts) |->
                                IF CacheKey(ts[i]) \in DOMAIN c
                                THEN c[CacheKey(ts[i])] ELSE NoEmbedding]
    IN  IF texts_to_embed = << >>
        THEN [cache |-> c, value |-> embeddings, requests |-> << >>]
        ELSE LET r == EmbedDocuments(texts_to_embed,
                                     [j \in 1..Len(indices_to_embed) |->
                                         oks[indices_to_embed[j]]])
                 u == StoreNew(ts, indices_to_embed, r.value, 1, c, embeddings)
             IN  [cache |-> u.cache, value |-> u.embeddings, requests |-> r.requests]

\* EmbeddingManager.get_embeddings(texts, use_cache) on the cache c:
\* [cache, value, requests]
GetEmbeddingsOf(c, ts, uc, oks) ==
    IF ~uc
    THEN LET r == EmbedDocuments(ts, oks)
         IN  [cache |-> c, value |-> r.value, requests |-> r.requests]
    ELSE LET indices_to_embed == Misses(ts, 1, c)
             texts_to_embed   == [j \in 1..Len(indices_to_embed) |-> ts[indices_to_embed[j]]]
             embeddings       == [i \in 1..Len(ts) |->
                                     IF CacheKey(ts[i]) \in DOMAIN c
                                     THEN c[CacheKey(ts[i])] ELSE NoEmbedding]
         IN  IF texts_to_embed = << >>
             THEN [cache |-> c, value |-> embeddings, requests |-> << >>]
             ELSE LET r == EmbedDocuments(texts_to_embed,
                                          [j \in 1..Len(indices_to_embed) |->
                                              oks[indices_to_embed[j]]])
                      u == StoreNew(ts, indices_to_embed, r.value, 1, c, embeddings)
                  IN  [cache |-> u.cache, value |-> u.embeddings, requests |-> r.requests]

\* EmbeddingManager.get_query_embedding(query, use_cache) on the cache c
GetQueryEmbeddingOf(c, query, uc, oks) ==
    IF ~uc
    THEN LET r == EmbedQuery(query, oks)
         IN  [cache |-> c, value |-> r.value, requests |-> r.requests]
    ELSE IF CacheKey(query) \in DOMAIN c
         THEN [cache |-> c, value |-> c[CacheKey(query)], requests |-> << >>]
         ELSE LET r == EmbedQuery(query, oks)
              IN  [cache    |-> (CacheKey(query) :> r.value) @@ c,
                   value    |-> r.value,
                   requests |-> r.requests]

EmbedTexts == {<<"a">>, <<"b">>}

\* Bounds of the embedding model
MaxTexts == 2           \* texts in one get_embeddings / embed_documents call
MaxSubmitted == 2       \* a call starts only while no content was requested more often

\* The outcomes of the requests for the n texts of a call
Oracles(n) == [1..n -> BOOLEAN]

\* submitted after the requests reqs
RECURSIVE Count(_, _)
Count(reqs, sub) ==
    IF reqs = << >> THEN sub
    ELSE LET c == reqs[1].content
         IN  Count(Tail(reqs),
                   (c :> (IF c \in DOMAIN sub THEN sub[c] + 1 ELSE 1)) @@ sub)

CallAllowed == \A c \in DOMAIN submitted : submitted[c] < MaxSubmitted

queryIdle ==
    /\ similarity_threshold = 7000
    /\ max_context_length = 4000
    /\ store = [ok |-> TRUE, ranked |-> << >>]
    /\ k = 1
    /\ include_sources = TRUE
    /\ threshold = None
    /\ retrieved_docs = << >>
    /\ context = << >>
    /\ answer = ""
    /\ response = Pending
    /\ calls = << >>
    /\ returned = 0
    /\ raised = "none"
    /\ generations = 0

\* EmbeddingManager.__init__
EmbedInit ==
    /\ pc = "ready"
    /\ embedIdle
    /\ ingestIdle
    /\ callersIdle
    /\ queryIdle

unchangedQueryVars ==
    /\ UNCHANGED <<similarity_threshold, max_context_length, store, k, include_sources,
                   threshold, retrieved_docs, context, answer, response, calls,
                   returned, raised, generations>>
    /\ UNCHANGED ingestVars

unchangedQuery ==
    /\ unchangedQueryVars
    /\ UNCHANGED callerVars

\* A caller calls manager.get_embeddings(texts, use_cache)
GetEmbeddings ==
    /\ CallAllowed
    /\ \E ts \in SeqUpTo(EmbedTexts, MaxTexts), uc \in BOOLEAN :
         \E oks \in Oracles(Len(ts)) :
            LET r == GetEmbeddingsOf(cache, ts, uc, oks)
            IN  /\ texts' = ts
                /\ use_cache' = uc
                /\ cache' = r.cache
                /\ result' = r.value
                /\ requests' = r.requests
                /\ submitted' = Count(r.requests, submitted)
    /\ pc' = "get_embeddings"
    /\ unchangedQuery

\* A caller calls manager.get_query_embedding(query, use_cache)
GetQueryEmbedding ==
    /\ CallAllowed
    /\ \E query \in EmbedTexts, uc \in BOOLEAN :
         \E oks \in Oracles(1) :
            LET r == GetQueryEmbeddingOf(cache, query, uc, oks)
            IN  /\ texts' = <<query>>
                /\ use_cache' = uc
                /\ cache' = r.cache
                /\ result' = r.value
                /\ requests' = r.requests
                /\ submitted' = Count(r.requests, submitted)
    /\ pc' = "get_query_embedding"
    /\ unchangedQuery

\* Chroma calls embedding_function.embed_documents(texts) on the GoogleEmbeddings
EmbedDocumentsCall ==
    /\ CallAllowed
    /\ \E ts \in SeqUpTo(EmbedTexts, MaxTexts) :
         \E oks \in Oracles(Len(ts)) :
            LET r == EmbedDocuments(ts, oks)
            IN  /\ texts' = ts
                /\ result' = r.value
                /\ requests' = r.requests
                /\ submitted' = Count(r.requests, submitted)
    /\ use_cache' = FALSE
    /\ pc' = "embed_documents"
    /\ UNCHANGED cache
    /\ unchangedQuery

\* Chroma calls embedding_function.embed_query(text) on the GoogleEmbeddings
EmbedQueryCall ==
    /\ CallAllowed
    /\ \E query \in EmbedTexts :
         \E oks \in Oracles(1) :
            LET r == EmbedQuery(query, oks)
            IN  /\ texts' = <<query>>
                /\ result' = r.value
                /\ requests' = r.requests
                /\ submitted' = Count(r.requests, submitted)
    /\ use_cache' = FALSE
    /\ pc' = "embed_query"
    /\ UNCHANGED cache
    /\ unchangedQuery

\* VectorStore.similarity_search(query, k, threshold): the Chroma index embeds
\* the query with its embedding_function, which _initialize_vectorstore set
\* to embedding_manager.embedding_model, the GoogleEmbeddings itself
SearchEmbedsQuery ==
    /\ CallAllowed
    /\ \E query \in EmbedTexts :
         \E oks \in Oracles(1) :
            LET r == EmbedQuery(query, oks)
            IN  /\ texts' = <<query>>
                /\ result' = r.value
                /\ requests' = r.requests
                /\ submitted' = Count(r.requests, submitted)
    /\ use_cache' = FALSE
    /\ pc' = "similarity_search"
    /\ UNCHANGED cache
    /\ unchangedQuery

\* EmbeddingManager.clear_cache
ClearCache ==
    /\ cache' = EmptyDict
    /\ submitted' = EmptyDict
    /\ requests' = << >>
    /\ texts' = << >>
    /\ result' = << >>
    /\ use_cache' = TRUE
    /\ pc' = "clear_cache"
    /\ unchangedQuery

EmbedNext ==
    \/ GetEmbeddings
    \/ GetQueryEmbedding
    \/ EmbedDocumentsCall
    \/ EmbedQueryCall
    \/ SearchEmbedsQuery
    \/ ClearCache

SpecCache == EmbedInit /\ [][EmbedNext]_vars

-----------------------------------------------------------------------------
(* VectorStore.add_documents.  A chunk is its position in the argument      *)
(* list.  The call makes vectorstore.add_documents and vectorstore.persist  *)
(* calls, [op, batch, ok]; ok = FALSE when the call raises.  fail is the    *)
(* number of the vectorstore call that raises, 0 when none does.            *)

BatchSize == 50

\* Bound of the store model
MaxDocuments == 101     \* chunks given to one add_documents call

\* Python seq[a:b] for 0 <= a <= b
Slice(seq, a, b) == SubSeq(seq, a + 1, IF b < Len(seq) THEN b ELSE Len(seq))

\* The loop of add_documents going on with the next batch after a failed insert
RECURSIVE AddBatchesContinuing(_, _, _, _)
AddBatchesContinuing(docs, i, fail, made) ==
    IF i >= Len(docs) THEN [raised |-> FALSE, calls |-> made]
    ELSE AddBatchesContinuing(docs, i + BatchSize, fail,
                              Append(made, [op    |-> "add_documents",
                                            batch |-> Slice(docs, i, i + BatchSize),
                                            ok    |-> Len(made) + 1 # fail]))

\* for i in range(0, len(documents), batch_size): from i on, after the calls made
RECURSIVE AddBatches(_, _, _, _)
AddBatches(docs, i, fail, made) ==
    IF i >= Len(docs) THEN [raised |-> FALSE, calls |-> made]
    ELSE LET batch == Slice(docs, i, i + BatchSize)
             ok    == Len(made) + 1 # fail
             call  == [op |-> "add_documents", batch |-> batch, ok |-> ok]
         IN  IF ok THEN AddBatches(docs, i + BatchSize, fail, Append(made, call))
             ELSE [raised |-> TRUE, calls |-> Append(made, call)]

\* add_documents persisting after every batch
AddDocumentsPersistingEachBatch(docs, fail) ==
    IF docs = << >> THEN [raised |-> FALSE, calls |-> << >>]
    ELSE LET r  == AddBatches(docs, 0, 0, << >>)
             ps == [j \in 1..(2 * Len(r.calls)) |->
                       IF j % 2 = 1 THEN r.calls[(j + 1) \div 2]
                       ELSE [op |-> "persist", batch |-> << >>, ok |-> TRUE]]
         IN  [raised |-> FALSE, calls |-> ps]

\* VectorStore.add_documents(documents): [raised, calls]
AddDocumentsOf(docs, fail) ==
    IF docs = << >> THEN [raised |-> FALSE, calls |-> << >>]
    ELSE LET r == AddBatches(docs, 0, fail, << >>)
         IN  IF r.raised THEN r                            \* except: log, raise
             ELSE LET ok == Len(r.calls) + 1 # fail
                  IN  [raised |-> ~ok,
                       calls  |-> Append(r.calls,
                                         [op |-> "persist", batch |-> << >>, ok |-> ok])]

\* The vectorstore calls of an add_documents call on n chunks, persist included
FailPoints(n) == 0..((n + BatchSize - 1) \div BatchSize + 1)

\* VectorStore.__init__
StoreInit ==
    /\ pc = "store_ready"
    /\ embedIdle
    /\ ingestIdle
    /\ callersIdle
    /\ queryIdle

\* A caller calls vector_store.add_documents(documents)
AddDocuments ==
    /\ \E n \in 0..MaxDocuments :
         \E fail \in FailPoints(n) :
            LET docs == [i \in 1..n |-> i]
                r    == AddDocumentsOf(docs, fail)
            IN  /\ documents' = docs
                /\ store_calls' = r.calls
                /\ pc' = IF r.raised THEN "add_raised" ELSE "add_returned"
    /\ UNCHANGED <<sources, file_path, loaded, callers, serialized>>
    /\ UNCHANGED embedVars
    /\ UNCHANGED <<similarity_threshold, max_context_length, store, k, include_sources,
                   threshold, retrieved_docs, context, answer, response, calls,
                   returned, raised, generations>>

StoreNext == AddDocuments

SpecStore == StoreInit /\ [][StoreNext]_vars

-----------------------------------------------------------------------------
(* DocumentProcessor.  A CSV file is [status, rows]: status "missing" when  *)
(* the path does not exist, "unreadable" or "malformed" when it exists and  *)
(* pd.read_csv raises, "ok" when read_csv gives a frame of that many rows.  *)
(* The text of a document is what it was made from; the splitter makes the  *)
(* same number of pieces of every document of a call.                       *)

\* Bounds of the loader model
MaxRows == 2            \* rows of a CSV file
MaxPieces == 2          \* chunks the text splitter makes of one document

MaintenanceLogs == "synthetic_maintenance_logs.csv"

FleetInfo == "synthetic_fleet_info.csv"

ObdCodes == "synthetic_obd_codes.csv"

Files == {MaintenanceLogs, FleetInfo, ObdCodes}

FileStates ==
    {[status |-> st, rows |-> 0] : st \in {"missing", "unreadable", "malformed"}}
    \cup {[status |-> "ok", rows |-> n] : n \in 0..MaxRows}

\* Path(file).exists()
Exists(srcs, file) == srcs[file].status # "missing"

\* DocumentProcessor.load_csv_data(file_path): one document per row of the
\* frame, [] when read_csv raises
LoadCsvDataOf(srcs, file) ==
    IF srcs[file].status # "ok" THEN << >>
    ELSE [i \in 1..srcs[file].rows |->
            [page_content |-> <<file, i - 1>>,
             metadata     |-> [source |-> file, row_index |-> i - 1,
                               type |-> "csv_data"]]]

\* load_maintenance_logs / load_fleet_info / load_obd_codes: the documents of
\* the file, after doc.metadata.update({"document_type": ...})
LoadTyped(srcs, file, document_type) ==
    IF ~Exists(srcs, file) THEN << >>
    ELSE LET docs == LoadCsvDataOf(srcs, file)
         IN  [i \in 1..Len(docs) |->
                [docs[i] EXCEPT !.metadata =
                                    [document_type |-> document_type] @@ @]]

\* DocumentProcessor.create_sample_manual
SampleManual ==
    [page_content |-> <<"sample_maintenance_manual.txt", 0>>,
     metadata     |-> [source |-> "sample_maintenance_manual.txt",
                       document_type |-> "maintenance_manual", type |-> "manual"]]

\* text_splitter.split_documents: the pieces of each document, in order, each
\* with the metadata of its document
RECURSIVE SplitDocuments(_, _)
SplitDocuments(docs, pieces) ==
    IF docs = << >> THEN << >>
    ELSE [j \in 1..pieces |->
            [page_content |-> Append(docs[1].page_content, j),
             metadata     |-> docs[1].metadata]]
         \o SplitDocuments(Tail(docs), pieces)

\* DocumentProcessor.chunk_documents: the documents themselves when the
\* splitter raises
ChunkDocuments(docs, pieces, ok) == IF ok THEN SplitDocuments(docs, pieces) ELSE docs

\* load_all_documents giving up on every source when one of them fails
LoadAllDocumentsAllOrNothing(srcs, pieces, ok) ==
    IF \E f \in Files : srcs[f].status # "ok" THEN << >>
    ELSE ChunkDocuments(LoadTyped(srcs, MaintenanceLogs, "maintenance_log")
                        \o LoadTyped(srcs, FleetInfo, "fleet_info")
                        \o LoadTyped(srcs, ObdCodes, "obd_codes")
                        \o <<SampleManual>>, pieces, ok)

\* DocumentProcessor.load_all_documents
LoadAllDocumentsOf(srcs, pieces, ok) ==
    LET all_documents == LoadTyped(srcs, MaintenanceLogs, "maintenance_log")
                         \o LoadTyped(srcs, FleetInfo, "fleet_info")
                         \o LoadTyped(srcs, ObdCodes, "obd_codes")
                         \o <<SampleManual>>
    IN  ChunkDocuments(all_documents, pieces, ok)

\* DocumentProcessor.__init__, with the files as they lie on disk
LoadInit ==
    /\ pc = "loader_ready"
    /\ sources \in [Files -> FileStates]
    /\ file_path = ""
    /\ loaded = << >>
    /\ documents = << >>
    /\ store_calls = << >>
    /\ callersIdle
    /\ embedIdle
    /\ queryIdle

unchangedByLoader ==
    /\ UNCHANGED <<sources, documents, store_calls, callers, serialized>>
    /\ UNCHANGED embedVars
    /\ UNCHANGED <<similarity_threshold, max_context_length, store, k, include_sources,
                   threshold, retrieved_docs, context, answer, response, calls,
                   returned, raised, generations>>

\* A caller calls processor.load_csv_data(file_path)
LoadCsvData ==
    /\ \E file \in Files :
          /\ file_path' = file
          /\ loaded' = LoadCsvDataOf(sources, file)
    /\ pc' = "load_csv_data"
    /\ unchangedByLoader

\* A caller calls processor.load_all_documents()
LoadAllDocuments ==
    /\ \E pieces \in 1..MaxPieces, ok \in BOOLEAN :
          loaded' = LoadAllDocumentsOf(sources, pieces, ok)
    /\ file_path' = ""
    /\ pc' = "load_all_documents"
    /\ unchangedByLoader

LoadNext ==
    \/ LoadCsvData
    \/ LoadAllDocuments

SpecLoad == LoadInit /\ [][LoadNext]_vars

-----------------------------------------------------------------------------
(* Concurrent callers of one EmbeddingManager.  Each caller is a thread of  *)
(* the hosting process that calls get_query_embedding(text) or              *)
(* get_embeddings([text]) with caching once; the steps of a call are the    *)
(* lookup, the provider call and the cache write, and the threads           *)
(* interleave between them.  The code takes no lock; `serialized` is the    *)
(* discipline of the hosting process.                                       *)

Methods == {"get_query_embedding", "get_embeddings"}

\* The lookup finding nothing, whatever the cache holds
CacheHitNever(c, text) == FALSE

\* if cache_key in self.cache
CacheHit(c, text) == CacheKey(text) \in DOMAIN c

\* What the method returns for the embedding of its text
Returned(method, embedding) ==
    IF method = "get_embeddings" THEN <<embedding>> ELSE embedding

\* A manager shared by the threads, its cache empty
RaceInit ==
    /\ pc = "callers"
    /\ callers = [c \in Callers |-> NoCall]
    /\ serialized \in BOOLEAN
    /\ embedIdle
    /\ ingestIdle
    /\ queryIdle

unchangedByCallers ==
    /\ UNCHANGED <<pc, serialized, requests, texts, use_cache, result>>
    /\ unchangedQueryVars

\* Thread c calls the method; under the discipline only while no other
\* thread is inside a call
Enter(c) ==
    /\ callers[c].pc = "idle"
    /\ serialized => \A d \in Callers \ {c} : callers[d].pc \in {"idle", "returned"}
    /\ \E method \in Methods, text \in EmbedTexts :
          callers' = [callers EXCEPT ![c] = [NoCall EXCEPT !.pc = "called",
                                                           !.method = method,
                                                           !.text = text]]
    /\ UNCHANGED <<cache, submitted>>
    /\ unchangedByCallers

\* cache_key = self._get_cache_key(text); if cache_key in self.cache: the
\* cached vector is returned, otherwise the text is to be embedded
Lookup(c) ==
    /\ callers[c].pc = "called"
    /\ LET call == callers[c]
       IN  callers' = [callers EXCEPT ![c] =
                          IF CacheHit(cache, call.text)
                          THEN [call EXCEPT !.pc = "returned",
                                            !.result = Returned(call.method,
                                                                cache[CacheKey(call.text)])]
                          ELSE [call EXCEPT !.pc = "missed"]]
    /\ UNCHANGED <<cache, submitted>>
    /\ unchangedByCallers

\* self.embedding_model.embed_query(query) / embed_documents(texts_to_embed)
RequestEmbedding(c) ==
    /\ callers[c].pc = "missed"
    /\ \E oks \in Oracles(1) :
          LET text == callers[c].text
              r    == IF callers[c].method = "get_embeddings"
                      THEN LET d == EmbedDocuments(<<text>>, oks)
                           IN  [value |-> d.value[1], requests |-> d.requests]
                      ELSE LET q == EmbedQuery(text, oks)
                           IN  [value |-> q.value, requests |-> q.requests]
          IN  /\ callers' = [callers EXCEPT ![c].pc = "embedded",
                                            ![c].embedding = r.value]
              /\ submitted' = Count(r.requests, submitted)
    /\ UNCHANGED cache
    /\ unchangedByCallers

\* self.cache[cache_key] = embedding; return
WriteCache(c) ==
    /\ callers[c].pc = "embedded"
    /\ cache' = (CacheKey(callers[c].text) :> callers[c].embedding) @@ cache
    /\ callers' = [callers EXCEPT ![c].pc = "returned",
                                  ![c].result = Returned(callers[c].method,
                                                         callers[c].embedding)]
    /\ UNCHANGED submitted
    /\ unchangedByCallers

RaceNext ==
    \E c \in Callers :
        \/ Enter(c)
        \/ Lookup(c)
        \/ RequestEmbedding(c)
        \/ WriteCache(c)

SpecRace == RaceInit /\ [][RaceNext]_vars

-----------------------------------------------------------------------------
(* Properties of RAGPipeline.query *)

\* C1: query never raises to its caller: when a step of a query (similarity
\* search, context assembly, answer generation, confidence computation,
\* source formatting) throws, the query has returned, exactly once, the
\* fixed error response (the error answer, confidence 0.0, sources []).
C1_QueryNeverRaises ==
    /\ pc # "propagated"
    /\ raised # "none" =>
          /\ pc = "responded"
          /\ returned = 1
          /\ response.answer = ErrorAnswer
          /\ response.confidence = 0
          /\ response.sources = << >>

\* C1 witness: the last step, source formatting, threw after a confidence
\* above 0 had been computed, and the caller got the error response.
C1_Witness ==
    /\ raised = "_format_sources"
    /\ CalculateConfidence(retrieved_docs, TRUE) > 0
    /\ pc = "responded"
    /\ response = ErrorResponse

\* similarity_search has returned an empty sequence to the running query
SearchReturnedEmpty ==
    /\ pc \notin {"idle", "received"}
    /\ raised # "similarity_search"
    /\ retrieved_docs = << >>

\* C2: for every k and include_sources, when similarity_search returns an
\* empty sequence the query returns the "couldn't find relevant information"
\* answer with confidence 0.0 and sources [], and neither the context
\* assembler nor the answer generator (nor any other helper) is called.
C2_EmptyRetrieval ==
    SearchReturnedEmpty =>
        /\ calls = <<"similarity_search">>
        /\ pc \in {"retrieved", "responded"}
        /\ pc = "responded" =>
              /\ response.answer = NoMatchAnswer
              /\ response.confidence = 0
              /\ response.sources = << >>

\* C2 witness: a query with k = 2 and include_sources whose index held two
\* results, all below the threshold, got the no-match response.
C2_Witness ==
    /\ pc = "responded"
    /\ SearchReturnedEmpty
    /\ k = 2
    /\ include_sources
    /\ Len(store.ranked) = 2
    /\ response = NoMatchResponse

\* The order of the calls a query makes, and its single return
C9_Order ==
    /\ returned \in {0, 1}
    /\ returned = 1 <=> pc = "responded"
    /\ pc \notin {"idle", "received"} => Len(calls) >= 1
    /\ \A i \in 1..Len(calls) :
          /\ calls[i] = "similarity_search" <=> i = 1
          /\ calls[i] = "_prepare_context" => i = 2 /\ retrieved_docs # << >>
          /\ calls[i] = "generate" => i = 3 /\ calls[2] = "_prepare_context"
    /\ pc = "retrieved" => calls = <<"similarity_search">>
    /\ pc = "context_built" => calls = <<"similarity_search", "_prepare_context">>
                               /\ context = PrepareContext(retrieved_docs, max_context_length)
    /\ pc = "answered" => calls = <<"similarity_search", "_prepare_context", "generate">>

\* The transitions of the state machine; ANSWERED -> RESPONDED passes through
\* the confidence computation ("scored"), and a step that throws leads to
\* RESPONDED.
C9_Transitions ==
    {<<"idle", "received">>, <<"received", "retrieved">>,
     <<"retrieved", "responded">>, <<"retrieved", "context_built">>,
     <<"context_built", "answered">>, <<"answered", "scored">>,
     <<"scored", "responded">>, <<"responded", "idle">>,
     <<"received", "responded">>, <<"context_built", "responded">>,
     <<"answered", "responded">>}

C9_Move == <<pc, pc'>> \in C9_Transitions

\* C9: every query follows RECEIVED -> RETRIEVED -> (NO_MATCH | CONTEXT_BUILT
\* -> ANSWERED) -> RESPONDED: exactly one similarity_search, first; context
\* assembly only after a non-empty retrieval; the generator called at most
\* once and only after the context was built from that retrieval; and every
\* query ends by returning exactly one response.
C9_StateMachine ==
    /\ []C9_Order
    /\ [][C9_Move]_pc
    /\ [](pc = "received" => <>(pc = "responded"))

\* C9 witness: a query has gone through retrieval, context assembly,
\* generation, scoring and packaging, and returned once.
C9_Witness ==
    /\ pc = "responded"
    /\ returned = 1
    /\ calls = <<"similarity_search", "_prepare_context", "generate",
                 "_calculate_confidence", "_format_sources">>
    /\ raised = "none"

-----------------------------------------------------------------------------
(* Properties of the helpers *)

\* The sum of the scores of results i..Len(docs)
RECURSIVE C3_Total(_, _)
C3_Total(docs, i) == IF i > Len(docs) THEN 0 ELSE docs[i][2] + C3_Total(docs, i + 1)

C4_ContextBounded ==
    pc = "fn_context" => Len(context) <= max_context_length + Len(Ellipsis)

\* The threshold the caller of similarity_search asked for: the argument,
\* the configured default when none is given
C7_Threshold == IF threshold # None THEN threshold[1] ELSE similarity_threshold

C7_AtLeast(pair) == pair[2] >= C7_Threshold

\* C7: of the at most k results the index returns, similarity_search returns
\* exactly those with score >= threshold, in the index's order.
C7_InclusiveFilter ==
    pc = "fn_search" /\ store.ok =>
        retrieved_docs = SelectSeq(WithScore(store.ranked, k), C7_AtLeast)

\* C8: in every source entry, content longer than 200 characters is its
\* first 200 characters followed by "...", and content of 200 characters or
\* fewer is unchanged.
C8_SourceTruncation ==
    pc = "fn_sources" =>
        /\ Len(response.sources) = Len(retrieved_docs)
        /\ \A i \in 1..Len(retrieved_docs) :
              LET c   == retrieved_docs[i][1].page_content
                  out == response.sources[i].content
              IN  IF Len(c) > 200
                  THEN /\ Len(out) = 203
                       /\ \A j \in 1..200 : out[j] = c[j]
                       /\ \A j \in 201..203 : out[j] = "."
                  ELSE out = c

\* C8 witness: sources formatted for a content of exactly 200 characters,
\* passed through, and one of 201 characters, cut to 200 plus "...".
C8_Witness ==
    /\ pc = "fn_sources"
    /\ Len(retrieved_docs) = 2
    /\ Len(retrieved_docs[1][1].page_content) = 200
    /\ response.sources[1].content = retrieved_docs[1][1].page_content
    /\ Len(retrieved_docs[2][1].page_content) = 201
    /\ Len(response.sources[2].content) = 203

-----------------------------------------------------------------------------
(* Properties of the embedding cache and the embedding provider wrapper *)

\* The number of requests made for content so far since the cache was empty
Submitted(sub, content) == IF content \in DOMAIN sub THEN sub[content] ELSE 0

\* The texts of a sequence
Range(seq) == {seq[i] : i \in 1..Len(seq)}

\* C5: with caching enabled, a get_embeddings / get_query_embedding call
\* submits each distinct text it is given exactly once when the text has no
\* cache entry, and not at all when it has one (so that, with no clear_cache
\* in between, each distinct text reaches the provider exactly once).
C5_CachedCall ==
    (pc' \in {"get_embeddings", "get_query_embedding"} /\ use_cache') =>
        \A t \in EmbedTexts :
            Submitted(submitted', Truncate(t)) - Submitted(submitted, Truncate(t))
                = IF t \in Range(texts') /\ CacheKey(t) \notin DOMAIN cache
                  THEN 1 ELSE 0

C5_OncePerText == [][C5_CachedCall]_vars

\* C6 (step): a call with use_cache = false requests every text it is given,
\* in order, whatever the cache holds, and leaves the cache as it was.
C6_UncachedCall ==
    (pc' \in {"get_embeddings", "get_query_embedding"} /\ ~use_cache') =>
        /\ cache' = cache
        /\ Len(requests') = Len(texts')
        /\ \A i \in 1..Len(texts') : requests'[i].content = Truncate(texts'[i])

\* C6: with use_cache = false, get_embeddings and get_query_embedding call
\* the provider for every requested text regardless of what the cache
\* holds, and the cache is the same after the call as before it.
C6_CacheBypassed == [][C6_UncachedCall]_vars

\* C6 witness: get_embeddings(texts, use_cache=False) was called with a
\* text that has a cache entry and one that has none; both were requested
\* and the second has no entry afterwards.
C6_Witness ==
    /\ pc = "get_embeddings"
    /\ ~use_cache
    /\ Len(texts) = 2
    /\ CacheKey(texts[1]) \in DOMAIN cache
    /\ CacheKey(texts[2]) \notin DOMAIN cache
    /\ Len(requests) = 2

\* The failed requests of the last call for a content
FailedRequests(content) ==
    Cardinality({i \in 1..Len(requests) :
                    requests[i].content = content /\ ~requests[i].ok})

\* C10: embed_query / embed_documents retry a failing provider call, up to
\* 3 attempts in all, and substitute the zero vector only after the third
\* attempt has failed; a call that succeeds at once makes one request.
C10_RetryBeforeFallback ==
    /\ pc = "embed_query" =>
          /\ requests[1].ok => Len(requests) = 1
          /\ result = ZeroVector => FailedRequests(Truncate(texts[1])) = StopAfterAttempt
    /\ pc = "embed_documents" =>
          \A i \in 1..Len(texts) :
              result[i] = ZeroVector =>
                  FailedRequests(Truncate(texts[i])) >= StopAfterAttempt

-----------------------------------------------------------------------------
(* Properties of GoogleLLM.generate *)

\* C11: generate always returns some text; it returns the apology only once
\* 3 generation requests have failed; a call whose first request succeeds
\* returns the model's text after exactly one request.
C11_RetryBeforeApology ==
    pc = "answered" =>
        /\ answer \in {GeneratedText, Apology}
        /\ generations \in 1..StopAfterAttempt
        /\ answer = Apology => generations = StopAfterAttempt

-----------------------------------------------------------------------------
(* Properties of GoogleEmbeddings.embed_documents *)

\* C12: embed_documents returns one embedding per text, in input order: at
\* a position whose request failed a zero vector of dimension 768, at every
\* other position the provider's vector for that text.
C12_BatchNeverAborts ==
    pc = "embed_documents" =>
        /\ Len(result) = Len(texts)
        /\ Len(requests) = Len(texts)
        /\ \A i \in 1..Len(texts) :
              /\ requests[i].content = Truncate(texts[i])
              /\ result[i] = IF requests[i].ok
                             THEN ProviderVector(Truncate(texts[i]))
                             ELSE [dim |-> 768, entries |-> <<"0.0">>]

\* C12 witness: a batch of two texts whose first request failed and whose
\* second succeeded came back as a zero vector and the provider's vector.
C12_Witness ==
    /\ pc = "embed_documents"
    /\ Len(texts) = 2
    /\ ~requests[1].ok
    /\ requests[2].ok
    /\ result = <<ZeroVector, ProviderVector(texts[2])>>

-----------------------------------------------------------------------------
(* Properties of the query embedding of similarity_search *)

C13_SearchStep ==
    pc' = "similarity_search" =>
        LET key == CacheKey(texts'[1])
        IN  /\ key \in DOMAIN cache'
            /\ cache'[key] = result'
            /\ Len(requests') = IF key \in DOMAIN cache THEN 0 ELSE 1

\* C13: similarity_search gets the query embedding through the embedding
\* cache: on a hit no provider request is made, on a miss one request is
\* made, and after the call the cache holds the entry for the query text.
C13_SearchUsesCache == [][C13_SearchStep]_vars

-----------------------------------------------------------------------------
(* Properties of VectorStore.add_documents *)

\* The chunks of the batches of calls j..Len(cs), in order
RECURSIVE C14_Chunks(_, _)
C14_Chunks(cs, j) == IF j > Len(cs) THEN << >> ELSE cs[j].batch \o C14_Chunks(cs, j + 1)

\* C14: an add_documents call on n > 0 chunks that returns has made
\* ceil(n/50) insert calls, of at most 50 chunks each, which together hold
\* the chunks in input order, each once, and then one persist call, the
\* last call before it returns; on an empty list it has made no call.
C14_BatchesThenPersist ==
    pc = "add_returned" =>
        LET n == Len(documents)
            b == (n + 49) \div 50
        IN  IF n = 0 THEN store_calls = << >>
            ELSE /\ Len(store_calls) = b + 1
                 /\ \A j \in 1..b :
                       /\ store_calls[j].op = "add_documents"
                       /\ Len(store_calls[j].batch) \in 1..50
                       /\ j < b => Len(store_calls[j].batch) = 50
                 /\ C14_Chunks(SubSeq(store_calls, 1, b), 1) = documents
                 /\ store_calls[b + 1].op = "persist"

\* C14 witness: 101 chunks were added in batches of 50, 50 and 1, then
\* persisted.
C14_Witness ==
    /\ pc = "add_returned"
    /\ Len(documents) = 101
    /\ Len(store_calls) = 4
    /\ Len(store_calls[3].batch) = 1
    /\ store_calls[4].op = "persist"

-----------------------------------------------------------------------------
(* Properties of the response of RAGPipeline.query *)

\* C15: when the lookup in the index fails, similarity_search returns an
\* empty sequence instead of raising, and the query ends with the no-match
\* response (confidence 0.0, sources []), not with the error response.
C15_FailedSearchIsNoMatch ==
    (pc \in {"retrieved", "context_built", "answered", "scored", "responded"}
     /\ ~store.ok /\ raised # "similarity_search") =>
        /\ retrieved_docs = << >>
        /\ raised = "none"
        /\ pc \in {"retrieved", "responded"}
        /\ pc = "responded" => response = NoMatchResponse /\ response # ErrorResponse

\* C15 witness: a query whose index lookup failed, although the index held
\* a result above the threshold, got the no-match response.
C15_Witness ==
    /\ pc = "responded"
    /\ ~store.ok
    /\ store.ranked # << >>
    /\ calls = <<"similarity_search">>
    /\ response = NoMatchResponse

\* The query has returned the response built from a non-empty retrieval
C16_Answered ==
    /\ pc = "responded"
    /\ raised = "none"
    /\ retrieved_docs # << >>

\* C16: with include_sources, sources has one entry per retrieved result
\* (at most k), in rank order, numbered 1..n, each with the result's
\* metadata and its score rounded to 3 decimals; without, sources is empty;
\* in both cases the answer is the generator's and the confidence that of
\* the retrieved results.
C16_Sources ==
    C16_Answered =>
        /\ response.answer = answer
        /\ response.confidence \in
              {CalculateConfidence(retrieved_docs, up) : up \in BOOLEAN}
        /\ IF include_sources
           THEN /\ Len(response.sources) = Len(retrieved_docs)
                /\ Len(response.sources) <= k
                /\ \A i \in 1..Len(retrieved_docs) :
                      LET src   == response.sources[i]
                          score == retrieved_docs[i][2]
                      IN  /\ src.id = i
                          /\ src.metadata = retrieved_docs[i][1].metadata
                          /\ 10 * src.similarity_score - score \in -5..5
           ELSE response.sources = << >>

\* C16 witness: a query with k = 2 and include_sources returned two sources,
\* the second for a result scoring 0.8205, whose score is given as 0.821 or 0.82.
C16_Witness ==
    /\ C16_Answered
    /\ include_sources
    /\ k = 2
    /\ Len(response.sources) = 2
    /\ retrieved_docs[2][2] = 8205
    /\ response.sources[2].id = 2
    /\ response.sources[2].similarity_score \in {820, 821}

\* C17: when retrieval returns 2 chunks scoring [0.82, 0.65], above the
\* threshold 0.6, which fit within the context limit, the context is built
\* from both chunks, the generator is called once, and the response has
\* confidence 0.74 and 2 sources, ranks 1 and 2, in descending score order.
C17_EndToEnd ==
    (/\ pc = "responded"
     /\ raised = "none"
     /\ include_sources
     /\ similarity_threshold = 6000
     /\ [i \in 1..Len(retrieved_docs) |-> retrieved_docs[i][2]] = <<8200, 6500>>
     /\ Len(retrieved_docs[1][1].page_content) + Len(retrieved_docs[2][1].page_content)
           <= max_context_length) =>
        /\ context = Join(<<ContextPart(retrieved_docs[1][1],
                                        retrieved_docs[1][1].page_content),
                            ContextPart(retrieved_docs[2][1],
                                        retrieved_docs[2][1].page_content)>>,
                          Newline \o Newline)
        /\ Cardinality({i \in 1..Len(calls) : calls[i] = "generate"}) = 1
        /\ generations = 1
        /\ response.confidence = 74
        /\ Len(response.sources) = 2
        /\ response.sources[1].id = 1 /\ response.sources[1].similarity_score = 820
        /\ response.sources[2].id = 2 /\ response.sources[2].similarity_score = 650

-----------------------------------------------------------------------------
(* Properties of DocumentProcessor *)

\* The documents of loaded that come from file
C18_From(file) == SelectSeq(loaded, LAMBDA doc : doc.metadata.source = file)

\* C18: load_csv_data returns an empty list for a file that is missing,
\* unreadable or malformed; load_all_documents returns no document of such a
\* file and, for every file that loads, the documents of all its rows.
C18_SourceFailureContained ==
    /\ (pc = "load_csv_data" /\ sources[file_path].status # "ok") => loaded = << >>
    /\ pc = "load_all_documents" =>
          \A file \in Files :
              IF sources[file].status # "ok"
              THEN C18_From(file) = << >>
              ELSE \A row \in 0..(sources[file].rows - 1) :
                      \E i \in 1..Len(loaded) :
                          /\ loaded[i].metadata.source = file
                          /\ loaded[i].metadata.row_index = row

\* C18 witness: with one file missing and one malformed, load_all_documents
\* returned the documents of the two rows of the third file.
C18_Witness ==
    /\ pc = "load_all_documents"
    /\ sources[MaintenanceLogs].status = "missing"
    /\ sources[FleetInfo].status = "malformed"
    /\ sources[ObdCodes] = [status |-> "ok", rows |-> 2]
    /\ Len(C18_From(ObdCodes)) >= 2

-----------------------------------------------------------------------------
(* Properties of the partial last entry of _prepare_context *)

\* The number of leading results of docs, from result i on, whose contents
\* fit together within max_length after used characters
RECURSIVE C19_Fitting(_, _, _, _)
C19_Fitting(docs, i, used, max_length) ==
    IF i > Len(docs) \/ used + Len(docs[i][1].page_content) > max_length THEN i - 1
    ELSE C19_Fitting(docs, i + 1, used + Len(docs[i][1].page_content), max_length)

\* The characters of the contents of the first m results
RECURSIVE C19_Used(_, _)
C19_Used(docs, m) ==
    IF m = 0 THEN 0 ELSE Len(docs[m][1].page_content) + C19_Used(docs, m - 1)

\* C19: the context holds the leading chunks that fit, in rank order; when
\* the next chunk does not fit and at least 100 characters of headroom
\* remain (100 included), its prefix of the length of the headroom followed
\* by "..." is the last entry; with less headroom nothing is added; no
\* later chunk is included.
C19_PartialLastEntry ==
    pc = "fn_context" =>
        LET docs     == retrieved_docs
            m        == C19_Fitting(docs, 1, 0, max_context_length)
            headroom == max_context_length - C19_Used(docs, m)
            whole    == [i \in 1..m |-> ContextPart(docs[i][1], docs[i][1].page_content)]
            entries  == IF m < Len(docs) /\ headroom >= 100
                        THEN Append(whole,
                                    ContextPart(docs[m + 1][1],
                                                Prefix(docs[m + 1][1].page_content, headroom)
                                                \o Ellipsis))
                        ELSE whole
        IN  context = Join(entries, Newline \o Newline)

-----------------------------------------------------------------------------
(* Properties of the merge of EmbeddingManager.get_embeddings *)

\* The number of texts among the first i of ts that have no entry in cache c
C20_MissesUpTo(ts, i, c) ==
    Cardinality({j \in 1..i : CacheKey(ts[j]) \notin DOMAIN c})

C20_CachedGet ==
    (pc' = "get_embeddings" /\ use_cache') =>
        LET ts     == texts'
            missed == {i \in 1..Len(ts) : CacheKey(ts[i]) \notin DOMAIN cache}
        IN  /\ Len(result') = Len(ts)
            /\ Len(requests') = Cardinality(missed)
            /\ \A i \in 1..Len(ts) :
                  IF i \in missed
                  THEN LET req == requests'[C20_MissesUpTo(ts, i, cache)]
                       IN  /\ req.content = Truncate(ts[i])
                           /\ result'[i] = IF req.ok THEN ProviderVector(Truncate(ts[i]))
                                           ELSE ZeroVector
                           /\ CacheKey(ts[i]) \in DOMAIN cache'
                  ELSE result'[i] = cache[CacheKey(ts[i])]

\* C20: get_embeddings with caching returns a list as long as the input
\* whose position i holds the embedding of texts[i]: the cached vector on a
\* hit, on a miss what the provider call gave for it; the provider is
\* requested only for the missed texts, in input order, and every missed
\* text has a cache entry when the call returns.
C20_MergeInOrder == [][C20_CachedGet]_vars

\* C20 witness: a cached call for two different texts, the first with a
\* cache entry and the second without, requested only the second and
\* returned the cached vector and the provider's vector, in that order.
C20_Witness ==
    /\ pc = "get_embeddings"
    /\ use_cache
    /\ Len(texts) = 2
    /\ texts[1] # texts[2]
    /\ Len(requests) = 1
    /\ requests[1] = [content |-> texts[2], ok |-> TRUE]
    /\ result = <<cache[CacheKey(texts[1])], ProviderVector(texts[2])>>

-----------------------------------------------------------------------------
(* Properties of concurrent callers of the embedding cache *)

\* The callers that have called the provider for content
C21_Requested(content) ==
    {c \in Callers : callers[c].embedding # << >> /\ Truncate(callers[c].text) = content}

\* C21: every caller that saw a miss calls the provider, so callers that
\* interleave can request the same text more than once; when access is
\* serialized each text is requested at most once; and when all callers
\* have returned the cache holds one entry for each of their texts.
C21_NotThreadSafe ==
    pc = "callers" =>
        /\ \A t \in EmbedTexts :
              /\ Submitted(submitted, Truncate(t)) = Cardinality(C21_Requested(Truncate(t)))
              /\ serialized => Submitted(submitted, Truncate(t)) <= 1
        /\ (\A c \in Callers : callers[c].pc = "returned") =>
              DOMAIN cache = {CacheKey(callers[c].text) : c \in Callers}

\* C21 witness: without the discipline two callers asked for the same
\* uncached text, both called the provider, and after both returned the
\* cache holds a single entry.
C21_Witness ==
    /\ pc = "callers"
    /\ ~serialized
    /\ callers[1].pc = "returned"
    /\ callers[2].pc = "returned"
    /\ callers[1].text = callers[2].text
    /\ Submitted(submitted, Truncate(callers[1].text)) = 2
    /\ Cardinality(DOMAIN cache) = 1

-----------------------------------------------------------------------------
(* Properties of a failing add_documents *)

\* C22: when the insert of batch j fails, the error propagates to the
\* caller, the calls made before it are the successful inserts of batches
\* 1..j-1, which hold the first 50 * (j - 1) chunks, no later batch is
\* inserted and persist is not called.
C22_NotAtomic ==
    /\ \A i \in 1..Len(store_calls) :
          ~store_calls[i].ok => pc = "add_raised" /\ i = Len(store_calls)
    /\ (pc = "add_raised" /\ store_calls[Len(store_calls)].op = "add_documents") =>
          LET j == Len(store_calls)
          IN  /\ \A i \in 1..(j - 1) :
                    /\ store_calls[i].op = "add_documents"
                    /\ store_calls[i].ok
              /\ C14_Chunks(SubSeq(store_calls, 1, j - 1), 1)
                    = SubSeq(documents, 1, 50 * (j - 1))
              /\ store_calls[j].batch
                    = SubSeq(documents, 50 * (j - 1) + 1,
                             IF 50 * j < Len(documents) THEN 50 * j ELSE Len(documents))
              /\ \A i \in 1..j : store_calls[i].op # "persist"

\* C22 witness: of 101 chunks the first batch of 50 was inserted, the
\* insert of the second batch failed, and the call raised with the third
\* batch not inserted and nothing persisted.
C22_Witness ==
    /\ pc = "add_raised"
    /\ Len(documents) = 101
    /\ Len(store_calls) = 2
    /\ store_calls[1].ok
    /\ Len(store_calls[1].batch) = 50
    /\ store_calls[2].op = "add_documents"
    /\ ~store_calls[2].ok

-----------------------------------------------------------------------------
(* Properties of a query whose generation failed *)

\* The generator of the running query failed and gave the apology
C24_GeneratorFailed ==
    /\ pc \in {"answered", "scored", "responded"}
    /\ answer = Apology

\* C24: a generator failure is not the error response: retrieval was
\* non-empty, nothing was raised by the generator, and unless a later helper
\* raises, query returns the apology as the answer with the confidence
\* computed from the retrieved scores and, if requested, the full sources
\* list, else no sources.
C24_ApologyWithConfidence ==
    C24_GeneratorFailed =>
        /\ retrieved_docs # << >>
        /\ raised # "generate"
        /\ pc = "answered" => raised = "none"
        /\ (pc = "responded" /\ raised = "none") =>
              /\ returned = 1
              /\ response.answer = Apology
              /\ response.confidence \in
                    {CalculateConfidence(retrieved_docs, up) :
                        up \in TieDirections(retrieved_docs)}
              /\ response.sources \in
                    IF include_sources
                    THEN {FormatSources(retrieved_docs, ups) :
                            ups \in [1..Len(retrieved_docs) -> BOOLEAN]}
                    ELSE {<< >>}

\* C24 witness: the generator failed on two retrieved results, and the
\* caller got the apology with a confidence above 0 and both sources.
C24_Witness ==
    /\ C24_GeneratorFailed
    /\ pc = "responded"
    /\ raised = "none"
    /\ include_sources
    /\ Len(retrieved_docs) = 2
    /\ response.answer = Apology
    /\ response.confidence > 0
    /\ Len(response.sources) = 2

-----------------------------------------------------------------------------
(* Properties of similarity_search called with threshold 0 *)

C25_AtLeastDefault(pair) == pair[2] >= similarity_threshold

\* C25: with a non-zero configured threshold, a threshold argument of 0
\* gives the results of no argument, those scoring at least the configured
\* threshold; and whatever the argument, a result scoring below the
\* configured threshold is returned only when the argument is a non-zero
\* value not above that score.
C25_ZeroIsNotGiven ==
    (pc = "fn_search" /\ store.ok /\ similarity_threshold # 0) =>
        /\ threshold \in {None, <<0>>} =>
              retrieved_docs = SelectSeq(WithScore(store.ranked, k), C25_AtLeastDefault)
        /\ \A i \in 1..Len(retrieved_docs) :
              retrieved_docs[i][2] < similarity_threshold =>
                  /\ threshold # None
                  /\ threshold[1] # 0
                  /\ threshold[1] <= retrieved_docs[i][2]

\* C25 witness: threshold 0 with default 0.7 and k = 2 over results scoring
\* 0.7 and 0.6999: only the first is returned.
C25_Witness ==
    /\ pc = "fn_search"
    /\ store.ok
    /\ threshold = <<0>>
    /\ similarity_threshold = 7000
    /\ k = 2
    /\ Len(store.ranked) = 2
    /\ store.ranked[1][2] = 7000
    /\ store.ranked[2][2] = 6999
    /\ retrieved_docs = <<store.ranked[1]>>

-----------------------------------------------------------------------------
(* Properties of a cached fallback vector *)

\* The cache c holds the zero vector for text t
C23_ZeroCached(c, t) == CacheKey(t) \in DOMAIN c /\ c[CacheKey(t)] = ZeroVector

\* The positions of the requests for text t among reqs
C23_RequestsFor(reqs, t) == {i \in 1..Len(reqs) : reqs[i].content = Truncate(t)}

\* A text with the zero vector in the cache is served from the cache by
\* every cached call, with no request, and keeps its entry until clear_cache
C23_ServedFromCache ==
    \A t \in EmbedTexts :
        C23_ZeroCached(cache, t) =>
            /\ pc' # "clear_cache" => C23_ZeroCached(cache', t)
            /\ pc' = "clear_cache" => cache' = EmptyDict
            /\ (pc' \in {"get_embeddings", "get_query_embedding"} /\ use_cache') =>
                  /\ C23_RequestsFor(requests', t) = {}
                  /\ \A i \in 1..Len(texts') :
                        texts'[i] = t =>
                            IF pc' = "get_embeddings"
                            THEN result'[i] = ZeroVector
                            ELSE result' = ZeroVector

C23_FailureCached ==
    /\ (pc' \in {"get_embeddings", "get_query_embedding"} /\ use_cache') =>
          \A t \in EmbedTexts :
              (\E i \in C23_RequestsFor(requests', t) : ~requests'[i].ok) =>
                  C23_ZeroCached(cache', t)
    /\ C23_ServedFromCache

\* C23: after a cached get_embeddings / get_query_embedding call in which a
\* request for text t failed, the cache holds the zero vector for t; while
\* it does, every cached call for t returns the zero vector and makes no
\* request for t, and the entry stays until clear_cache empties the cache.
C23_ZeroVectorCached == [][C23_FailureCached]_vars

C23_LastCached ==
    /\ (pc' \in {"get_embeddings", "get_query_embedding"} /\ use_cache') =>
          \A t \in EmbedTexts :
              LET sent == C23_RequestsFor(requests', t)
              IN  sent # {} =>
                      LET last == CHOOSE i \in sent : \A j \in sent : j <= i
                      IN  /\ CacheKey(t) \in DOMAIN cache'
                          /\ cache'[CacheKey(t)] =
                                IF requests'[last].ok THEN ProviderVector(Truncate(t))
                                ELSE ZeroVector
    /\ C23_ServedFromCache

\* What holds of the code in place of C23: the cache entry of t after a
\* cached call is the outcome of the call's last request for t, the zero
\* vector when that request failed; served and kept as C23 says.
C23_LastOutcomeCached == [][C23_LastCached]_vars

\* A failed request left the zero vector in the cache, and a later cached
\* get_query_embedding for the same text returned it with no request.
C23_ZeroServed ==
    /\ pc = "get_query_embedding"
    /\ use_cache
    /\ C23_ZeroCached(cache, texts[1])
    /\ requests = << >>
    /\ result = ZeroVector
    /\ Submitted(submitted, Truncate(texts[1])) = 1

=============================================================================
